---- MODULE Spec2Model ----
(***************************************************************************)
(* Model of the LicenseChain Polygon SDK: the retry helper (utils.ts), the *)
(* error taxonomy (errors.ts), the manager operations that use them       *)
(* (wallet, token, contract, DeFi, license and NFT managers) and the       *)
(* facade (index.ts).                                                      *)
(*                                                                         *)
(* One call with awaits is followed at a time.  It is started by the entry *)
(* action of its operation, which runs the synchronous prefix of the async *)
(* method up to its first await; the chain client answers through the      *)
(* environment actions; the continuation actions run the rest of the       *)
(* method.  Methods without any await (setWallet, disconnect of the wallet *)
(* manager, updateConfig) run to completion and may be called between two  *)
(* steps of the call in progress.  The per-call history (netCalls,         *)
(* submissions, fnLog, delays...) is reset when the caller has received    *)
(* the result.                                                             *)
(***************************************************************************)
EXTENDS Integers, Sequences, FiniteSets, TLC

\* ---------------------------------------------------------------- bounds
MaxN == 4
MaxDelay == 2

\* ------------------------------------------------------ program constants
DefaultMaxRetries == 3
DefaultDelay == 1000

Delays == (0..MaxDelay) \cup {DefaultDelay}
RetryCaps == (-1)..MaxN

\* ----------------------------------------------------------------- values
\* Strings the code inspects character by character are sequences of
\* one-character strings.
Amounts == { <<>>, <<"0">>, <<"5">>, <<"1", ".", "5">>, <<"a", "b", "c">> }
Digits == {"0", "1", "2", "3", "4", "5", "6", "7", "8", "9"}

ValidAddresses == {"0xA11ce", "0xB0b"}
Addresses == ValidAddresses \cup {"not-an-address"}

NoWallet == "none"
Keys == {"key1", "key2"}

\* How the import of PolygonNetworkError from './errors' resolves: errors.ts
\* exports no such name ("unbound": the constructor expression throws a
\* TypeError), or the name denotes the module's NetworkError class.
Bindings == {"unbound", "NetworkError"}

\* ----------------------------------------------------------------- errors
Undefined == [key |-> "undefined", str |-> <<>>, err |-> <<>>]
DataObj(k, s) == [key |-> k, str |-> s, err |-> <<>>]
DataErr(e) == [key |-> "error", str |-> <<>>, err |-> <<e>>]
DataPair(k, s, k2, s2) == [key |-> k, str |-> s, err |-> <<>>, key2 |-> k2, str2 |-> s2]

\* class PolygonError and the classes that extend it
PolygonErrorClasses ==
  {"PolygonError", "InsufficientBalanceError", "TransactionFailedError",
   "LicenseNotFoundError", "NFTNotFoundError", "InvalidAmountError",
   "NetworkError", "ContractError"}

PolygonError(message, code, data) ==
  [code |-> code, data |-> data, cls |-> "PolygonError", msg |-> message, n |-> 0]

InvalidAmountError(amount) ==
  [code |-> "INVALID_AMOUNT", data |-> DataObj("amount", amount),
   cls |-> "InvalidAmountError", msg |-> <<"Invalid amount: ">> \o amount, n |-> 0]

NetworkError(message) ==
  [code |-> "NETWORK_ERROR", data |-> DataObj("message", message),
   cls |-> "NetworkError", msg |-> <<"Network error: ">> \o message, n |-> 0]

InsufficientBalanceError(required, available) ==
  [code |-> "INSUFFICIENT_BALANCE",
   data |-> DataPair("required", required, "available", available),
   cls |-> "InsufficientBalanceError",
   msg |-> <<"Insufficient balance. Required: ">> \o required
             \o <<", Available: ">> \o available,
   n |-> 0]

LicenseNotFoundError(licenseId) ==
  [code |-> "LICENSE_NOT_FOUND", data |-> DataObj("licenseId", licenseId),
   cls |-> "LicenseNotFoundError", msg |-> <<"License not found: ">> \o licenseId, n |-> 0]

NFTNotFoundError(tokenId) ==
  [code |-> "NFT_NOT_FOUND", data |-> DataObj("tokenId", tokenId),
   cls |-> "NFTNotFoundError", msg |-> <<"NFT not found: ">> \o tokenId, n |-> 0]

TransactionFailedError(hash, reason) ==
  [code |-> "TRANSACTION_FAILED", data |-> DataPair("hash", hash, "reason", reason),
   cls |-> "TransactionFailedError", msg |-> <<"Transaction failed: ">> \o reason, n |-> 0]

ContractError(method, reason) ==
  [code |-> "CONTRACT_ERROR", data |-> DataPair("method", method, "reason", reason),
   cls |-> "ContractError",
   msg |-> <<"Contract error in ">> \o method \o <<": ">> \o reason, n |-> 0]

\* The placeholder failure of the unimplemented operations.
NotImplementedError ==
  [code |-> "NONE", data |-> Undefined, cls |-> "Error",
   msg |-> <<"Not implemented - requires Polygon-specific implementation">>,
   n |-> 0]

\* A failure raised by the chain client for its n-th request of the call.
TransportError(n) ==
  [code |-> "SERVER_ERROR", data |-> Undefined, cls |-> "Error", msg |-> <<"transport">>, n |-> n]

\* A failure raised by the library while parsing an argument.
ArgumentError(what) ==
  [code |-> "INVALID_ARGUMENT", data |-> Undefined, cls |-> "Error", msg |-> <<what>>, n |-> 0]

TypeError(what) ==
  [code |-> "NONE", data |-> Undefined, cls |-> "TypeError", msg |-> <<what>>, n |-> 0]

\* new PolygonNetworkError(message, error)
PolygonNetworkError(b, message, error) ==
  IF b = "unbound"
    THEN TypeError("PolygonNetworkError is not a constructor")
    ELSE NetworkError(<<message>>)

\* error instanceof PolygonError
InstanceOfPolygonError(e) == e.cls \in PolygonErrorClasses

\* error instanceof InvalidAmountError
InstanceOfInvalidAmountError(e) == e.cls = "InvalidAmountError"

\* ------------------------------------------------------------- validation
validateAddress(a) == a \in ValidAddresses

\* ethers parseUnits / parseEther accept /^-?[0-9.]+$/ with at most one
\* point and at least one digit.
Parsable(s) ==
  /\ Len(s) > 0
  /\ \A i \in 1..Len(s) : s[i] \in Digits \cup {"."} \/ (i = 1 /\ s[i] = "-")
  /\ Cardinality({i \in 1..Len(s) : s[i] = "."}) <= 1
  /\ \E i \in 1..Len(s) : s[i] \in Digits

\* ------------------------------------------------------------------ state
VARIABLES
  binding,      \* resolution of PolygonNetworkError (fixed by the build)
  signer,       \* contract/token manager: this.signer is set
  wallet,       \* wallet manager: this.wallet (NoWallet when undefined)
  op,           \* operation of the call in progress
  args,         \* its arguments
  pc,           \* position in the method
  netCalls,     \* requests issued to the chain client during the call
  submissions,  \* mutating submissions issued during the call
  outcome,      \* how the call settled
  caught,       \* the error the operation's catch block received, if any
  \* retry(fn, maxRetries, delay)
  rstate,       \* "none", "inflight", "timer", "resolved", "rejected"
  maxRetries,
  delay,
  attempts,     \* the closure variable attempts
  invocations,  \* calls of fn so far
  inFlight,     \* calls of fn not yet settled
  fnPhase,      \* where the invocation of fn in flight is
  timer,        \* delay of the pending setTimeout, -1 when none
  delays,       \* delays passed to setTimeout, in order
  fired,        \* timers fired
  waited,       \* sum of the delays of the fired timers
  fnLog,        \* how each invocation of fn settled
  settle,       \* calls of resolve / reject, in order
  signedWith,   \* identities the submissions of the call were sent with
  \* the facade and the managers it reconfigures
  config,
  licenseConfig,
  nftConfig,
  deFiConfig,
  \* history of the call in progress
  identity,     \* this.wallet when the wallet operation was invoked
  receipt,      \* status code of the receipt the chain client delivered
  disconnected, \* managers whose disconnect the facade has invoked
  queries       \* the queries joined by Promise.all, and their answers

gvars == <<config, licenseConfig, nftConfig, deFiConfig>>
mvars == <<binding, signer, wallet, config, licenseConfig, nftConfig, deFiConfig>>
cvars == <<op, args, pc, netCalls, submissions, outcome, caught>>
rvars == <<rstate, maxRetries, delay, attempts, invocations, inFlight, fnPhase,
           timer, delays, fired, waited, fnLog, settle, signedWith>>
hvars == <<identity, receipt, disconnected, queries>>
vars == <<binding, signer, wallet, op, args, pc, netCalls, submissions, outcome, caught,
          rstate, maxRetries, delay, attempts, invocations, inFlight, fnPhase,
          timer, delays, fired, waited, fnLog, settle, signedWith,
          config, licenseConfig, nftConfig, deFiConfig,
          identity, receipt, disconnected, queries>>

\* PolygonConfig, reduced to two of its fields
RpcUrls == {"rpcA", "rpcB"}
NetworkIds == {137, 80001}
InitialConfig == [rpcUrl |-> "rpcA", networkId |-> 137]

\* receipt: no receipt has been delivered
NoReceipt == -1

\* The three queries of getAccount.
Queries == {"code", "balance", "transactionCount"}
NoQueries == [code |-> "none", balance |-> "none", transactionCount |-> "none"]

NoArgs == [addr |-> "", amt |-> <<>>, amt2 |-> <<>>, num |-> 0]
NoOutcome == [err |-> <<>>, st |-> "none", val |-> <<>>]
Failed(e) == [err |-> <<e>>, st |-> "err", val |-> <<>>]
Returned(v) == [err |-> <<>>, st |-> "ok", val |-> <<v>>]
\* return null, or the return of a Promise<void> method
ReturnedNull == [err |-> <<>>, st |-> "ok", val |-> <<>>]

Ok(v) == [err |-> <<>>, val |-> <<v>>, ok |-> TRUE]
Err(e) == [err |-> <<e>>, val |-> <<>>, ok |-> FALSE]

Idle == pc = "idle"

RetryIdle ==
  /\ rstate' = "none" /\ maxRetries' = 0 /\ delay' = 0 /\ attempts' = 0
  /\ invocations' = 0 /\ inFlight' = 0 /\ fnPhase' = "none" /\ timer' = -1
  /\ delays' = <<>> /\ fired' = 0 /\ waited' = 0 /\ fnLog' = <<>> /\ settle' = <<>>
  /\ signedWith' = {}

Init ==
  /\ binding \in Bindings
  /\ signer \in BOOLEAN
  /\ wallet \in {NoWallet} \cup Keys
  /\ op = "none" /\ args = NoArgs /\ pc = "idle"
  /\ netCalls = 0 /\ submissions = 0 /\ outcome = NoOutcome /\ caught = <<>>
  /\ rstate = "none" /\ maxRetries = 0 /\ delay = 0 /\ attempts = 0
  /\ invocations = 0 /\ inFlight = 0 /\ fnPhase = "none" /\ timer = -1
  /\ delays = <<>> /\ fired = 0 /\ waited = 0 /\ fnLog = <<>> /\ settle = <<>>
  /\ signedWith = {}
  /\ config = InitialConfig /\ licenseConfig = InitialConfig
  /\ nftConfig = InitialConfig /\ deFiConfig = InitialConfig
  /\ identity = NoWallet /\ receipt = NoReceipt /\ disconnected = {} /\ queries = NoQueries

\* ------------------------------------------------------------------ retry
RECURSIVE Pow2(_)
Pow2(k) == IF k <= 0 THEN 1 ELSE 2 * Pow2(k - 1)

BackoffDelay_offByOne(d, a) == d * Pow2(a)

\* delay * Math.pow(2, attempts - 1)
BackoffDelay(d, a) == d * Pow2(a - 1)

CapReached_strict(a, cap) == a > cap

CapReached_exact(a, cap) == a = cap

\* attempts >= maxRetries
CapReached(a, cap) == a >= cap

Rejection_generic(error) == TypeError("retry failed")

\* reject(error): the error caught from fn is handed over as it is
Rejection(error) == error

\* The first step of fn for operation o: what it does before its first await.
FnStart(o, a, w) ==
  CASE o = "retry" -> "opaque"
    [] o = "sendTransaction" ->
         IF ~Parsable(a.amt) \/ w = NoWallet THEN "threw" ELSE "submit"
    [] o \in {"transferToken", "approveToken", "transferFromToken"} -> "submit"
    [] o \in {"sendContractTransaction", "deployContract"} -> "estimate"
    [] OTHER -> "opaque"

\* The error fn throws synchronously when FnStart is "threw".
FnThrown(o, a, w) ==
  IF ~Parsable(a.amt)
    THEN ArgumentError("invalid decimal value")
    ELSE TypeError("Cannot read properties of undefined")

Invoke_lost(o, a, w, calls, subs, inv, fl, ids) ==
  /\ signedWith' = ids
  /\ rstate' = "inflight"
  /\ invocations' = inv + 1
  /\ inFlight' = fl + 1
  /\ fnPhase' = "lost"
  /\ netCalls' = calls
  /\ submissions' = subs

\* attempt(): calls fn, which runs to its first await.
Invoke(o, a, w, calls, subs, inv, fl, ids) ==
  LET ph == FnStart(o, a, w) IN
  /\ signedWith' = ids \cup (IF o = "sendTransaction" /\ ph = "submit" THEN {w} ELSE {})
  /\ rstate' = "inflight"
  /\ invocations' = inv + 1
  /\ inFlight' = fl + 1
  /\ fnPhase' = ph
  /\ netCalls' = calls + (IF ph \in {"estimate", "submit"} THEN 1 ELSE 0)
  /\ submissions' = subs + (IF ph = "submit" THEN 1 ELSE 0)

\* retry(fn, cap, d): the promise executor sets attempts to 0 and calls attempt().
StartRetry(o, a, w, cap, d, calls) ==
  /\ maxRetries' = cap /\ delay' = d /\ attempts' = 0
  /\ timer' = -1 /\ delays' = <<>> /\ fired' = 0 /\ waited' = 0
  /\ fnLog' = <<>> /\ settle' = <<>>
  /\ Invoke(o, a, w, calls, 0, 0, 0, {})

OnSuccess_reschedules(v) ==
  /\ rstate' = "resolved"
  /\ settle' = Append(settle, Ok(v))
  /\ timer' = BackoffDelay(delay, attempts + 1)
  /\ delays' = Append(delays, BackoffDelay(delay, attempts + 1))
  /\ UNCHANGED attempts

OnFailure_inspecting(e) ==
  /\ attempts' = attempts + 1
  /\ IF CapReached(attempts + 1, maxRetries) \/ InstanceOfPolygonError(e)
       THEN /\ rstate' = "rejected"
            /\ settle' = Append(settle, Err(Rejection(e)))
            /\ UNCHANGED <<timer, delays>>
       ELSE /\ rstate' = "timer"
            /\ timer' = BackoffDelay(delay, attempts + 1)
            /\ delays' = Append(delays, BackoffDelay(delay, attempts + 1))
            /\ UNCHANGED settle

OnFailure_rejectAndSchedule(e) ==
  /\ attempts' = attempts + 1
  /\ rstate' = IF CapReached(attempts + 1, maxRetries) THEN "rejected" ELSE "timer"
  /\ settle' = IF CapReached(attempts + 1, maxRetries)
                 THEN Append(settle, Err(Rejection(e))) ELSE settle
  /\ timer' = BackoffDelay(delay, attempts + 1)
  /\ delays' = Append(delays, BackoffDelay(delay, attempts + 1))

\* try { result = await fn(); resolve(result) }
OnSuccess(v) ==
  /\ rstate' = "resolved"
  /\ settle' = Append(settle, Ok(v))
  /\ UNCHANGED <<attempts, timer, delays>>

\* catch (error) { attempts++; if (attempts >= maxRetries) reject(error)
\*                 else setTimeout(attempt, delay * 2^(attempts-1)) }
OnFailure(e) ==
  /\ attempts' = attempts + 1
  /\ IF CapReached(attempts + 1, maxRetries)
       THEN /\ rstate' = "rejected"
            /\ settle' = Append(settle, Err(Rejection(e)))
            /\ UNCHANGED <<timer, delays>>
       ELSE /\ rstate' = "timer"
            /\ timer' = BackoffDelay(delay, attempts + 1)
            /\ delays' = Append(delays, BackoffDelay(delay, attempts + 1))
            /\ UNCHANGED settle

\* fn's promise is fulfilled by the chain client.
FnResolves ==
  /\ rstate = "inflight" /\ fnPhase \in {"opaque", "submit"}
  /\ inFlight' = inFlight - 1
  /\ fnPhase' = "none"
  /\ fnLog' = Append(fnLog, Ok([n |-> invocations]))
  /\ OnSuccess([n |-> invocations])
  /\ UNCHANGED <<maxRetries, delay, invocations, fired, waited, signedWith>>
  /\ UNCHANGED mvars /\ UNCHANGED hvars /\ UNCHANGED cvars

\* The errors the n-th invocation of fn may be rejected with: a failure of
\* the chain client in a manager's closure, any error for a caller's fn.
FnFailures(ph, n) ==
  IF ph = "opaque"
    THEN {TransportError(n), InvalidAmountError(<<"0">>),
          InsufficientBalanceError(<<"5">>, <<"0">>)}
    ELSE {TransportError(n)}

\* fn's promise is rejected.
FnRejects ==
  /\ rstate = "inflight" /\ fnPhase \in {"opaque", "estimate", "submit"}
  /\ inFlight' = inFlight - 1
  /\ fnPhase' = "none"
  /\ \E e \in FnFailures(fnPhase, invocations) :
       /\ fnLog' = Append(fnLog, Err(e))
       /\ OnFailure(e)
  /\ UNCHANGED <<maxRetries, delay, invocations, fired, waited, signedWith>>
  /\ UNCHANGED mvars /\ UNCHANGED hvars /\ UNCHANGED cvars

\* fn threw before issuing any request (argument parsing).
FnThrows ==
  /\ rstate = "inflight" /\ fnPhase = "threw"
  /\ inFlight' = inFlight - 1
  /\ fnPhase' = "none"
  /\ fnLog' = Append(fnLog, Err(FnThrown(op, args, wallet)))
  /\ OnFailure(FnThrown(op, args, wallet))
  /\ UNCHANGED <<maxRetries, delay, invocations, fired, waited, signedWith>>
  /\ UNCHANGED mvars /\ UNCHANGED hvars /\ UNCHANGED cvars

\* The gas estimate of fn arrives; fn submits the transaction.
FnEstimated ==
  /\ rstate = "inflight" /\ fnPhase = "estimate"
  /\ fnPhase' = "submit"
  /\ netCalls' = netCalls + 1
  /\ submissions' = submissions + 1
  /\ UNCHANGED <<rstate, maxRetries, delay, attempts, invocations, inFlight,
                 timer, delays, fired, waited, fnLog, settle, signedWith>>
  /\ UNCHANGED mvars /\ UNCHANGED hvars /\ UNCHANGED <<op, args, pc, outcome, caught>>

TimerFires_overlapping ==
  /\ rstate \in {"timer", "inflight"} /\ invocations < maxRetries
  /\ fired' = fired + 1
  /\ waited' = waited + (IF timer < 0 THEN 0 ELSE timer)
  /\ timer' = -1
  /\ Invoke(op, args, wallet, netCalls, submissions, invocations, inFlight, signedWith)
  /\ UNCHANGED <<maxRetries, delay, attempts, delays, fnLog, settle>>
  /\ UNCHANGED mvars /\ UNCHANGED hvars /\ UNCHANGED <<op, args, pc, outcome, caught>>

\* The pending timer fires and calls attempt().
TimerFires ==
  /\ rstate = "timer"
  /\ fired' = fired + 1
  /\ waited' = waited + timer
  /\ timer' = -1
  /\ Invoke(op, args, wallet, netCalls, submissions, invocations, inFlight, signedWith)
  /\ UNCHANGED <<maxRetries, delay, attempts, delays, fnLog, settle>>
  /\ UNCHANGED mvars /\ UNCHANGED hvars /\ UNCHANGED <<op, args, pc, outcome, caught>>

\* ------------------------------------------------- utils.retry, called directly
retry_call ==
  /\ Idle
  /\ \E cap \in RetryCaps, d \in Delays :
       StartRetry("retry", NoArgs, wallet, cap, d, 0)
  /\ op' = "retry" /\ args' = NoArgs /\ pc' = "retrying"
  /\ outcome' = NoOutcome /\ caught' = <<>>
  /\ UNCHANGED mvars /\ UNCHANGED hvars

\* The caller's await of the promise returned by retry.
retry_settled ==
  /\ op = "retry" /\ pc = "retrying" /\ rstate \in {"resolved", "rejected"}
  /\ outcome' = IF settle[1].ok THEN Returned(settle[1].val[1])
                                ELSE Failed(settle[1].err[1])
  /\ pc' = "done"
  /\ UNCHANGED <<op, args, netCalls, submissions, caught>>
  /\ UNCHANGED mvars /\ UNCHANGED hvars /\ UNCHANGED rvars

\* ------------------------------------------------------ manager plumbing
\* catch (error) { if (error instanceof PolygonError) throw error;
\*                 throw new PolygonNetworkError(message, error) }
CatchRethrow(b, message, e) ==
  IF InstanceOfPolygonError(e) THEN e ELSE PolygonNetworkError(b, message, e)

\* The method throws e1 inside its try block; its catch block throws e2.
Throws(e1, e2) ==
  /\ caught' = <<e1>>
  /\ outcome' = Failed(e2)
  /\ pc' = "done"

\* The same, before the method has issued any request or started a retry.
ThrowsAtOnce(e1, e2) ==
  /\ Throws(e1, e2)
  /\ netCalls' = 0 /\ submissions' = 0
  /\ RetryIdle

Begins(o, a) == op' = o /\ args' = a

\* The normalized transaction record built from tx and its receipt.
TxStatus(receiptStatus) == IF receiptStatus = 1 THEN "success" ELSE "failed"
TxRecord(tx, receiptStatus) == [hash |-> tx.n, status |-> TxStatus(receiptStatus)]

FailMsg(o) ==
  CASE o = "sendTransaction" -> "Failed to send transaction"
    [] o = "transferToken" -> "Failed to transfer token"
    [] o = "approveToken" -> "Failed to approve token"
    [] o = "transferFromToken" -> "Failed to transferFrom token"
    [] o = "sendContractTransaction" -> "Failed to send contract transaction"
    [] o = "deployContract" -> "Failed to deploy contract"
    [] OTHER -> "Failed"

\* The continuation of `await retry(...)` in method o: on success either the
\* confirmation is awaited (confirm) or the hash is returned; on failure the
\* catch block of the method runs.
AfterRetry(o, confirm) ==
  /\ op = o /\ pc = "retrying" /\ rstate \in {"resolved", "rejected"}
  /\ IF settle[1].ok
       THEN IF confirm
              THEN /\ pc' = "wait" /\ netCalls' = netCalls + 1
                   /\ UNCHANGED <<outcome, caught>>
              ELSE /\ pc' = "done" /\ outcome' = Returned(settle[1].val[1].n)
                   /\ UNCHANGED <<netCalls, caught>>
       ELSE /\ Throws(settle[1].err[1],
                      CatchRethrow(binding, FailMsg(o), settle[1].err[1]))
            /\ UNCHANGED netCalls
  /\ UNCHANGED <<op, args, submissions>>
  /\ UNCHANGED mvars /\ UNCHANGED hvars /\ UNCHANGED rvars

\* ------------------------------------------------------- PolygonWalletManager
WalletNotInitialized ==
  PolygonError(<<"Wallet not initialized">>, "WALLET_NOT_INITIALIZED", Undefined)

sendTransaction ==
  /\ Idle
  /\ \E to \in Addresses, value \in Amounts :
       LET a == [NoArgs EXCEPT !.addr = to, !.amt = value] IN
       /\ Begins("sendTransaction", a)
       /\ IF wallet = NoWallet
            THEN ThrowsAtOnce(WalletNotInitialized, WalletNotInitialized)
            ELSE IF ~validateAddress(to)
              THEN ThrowsAtOnce(
                     PolygonError(<<"Invalid recipient address">>, "INVALID_ADDRESS", Undefined),
                     PolygonError(<<"Invalid recipient address">>, "INVALID_ADDRESS", Undefined))
              ELSE /\ StartRetry("sendTransaction", a, wallet,
                                 DefaultMaxRetries, DefaultDelay, 0)
                   /\ pc' = "retrying" /\ outcome' = NoOutcome /\ caught' = <<>>
  /\ identity' = wallet /\ UNCHANGED <<receipt, disconnected, queries>>
  /\ UNCHANGED mvars

sendTransaction_retried == AfterRetry("sendTransaction", TRUE)

\* signMessage and signTransaction: the catch block wraps whatever it gets.
SigningFailed(what, e) == PolygonError(<<what>>, "SIGNING_FAILED", DataErr(e))

signMessage ==
  /\ Idle
  /\ Begins("signMessage", NoArgs)
  /\ IF wallet = NoWallet
       THEN ThrowsAtOnce(WalletNotInitialized,
                         SigningFailed("Failed to sign message", WalletNotInitialized))
       ELSE /\ outcome' = Returned([signedBy |-> wallet])
            /\ pc' = "done" /\ caught' = <<>>
            /\ netCalls' = 0 /\ submissions' = 0 /\ RetryIdle
  /\ identity' = wallet /\ UNCHANGED <<receipt, disconnected, queries>>
  /\ UNCHANGED mvars

signTransaction ==
  /\ Idle
  /\ \E wellFormed \in BOOLEAN :
       /\ Begins("signTransaction", [NoArgs EXCEPT !.num = IF wellFormed THEN 1 ELSE 0])
       /\ IF wallet = NoWallet
            THEN ThrowsAtOnce(WalletNotInitialized,
                              SigningFailed("Failed to sign transaction", WalletNotInitialized))
            ELSE IF ~wellFormed
              THEN ThrowsAtOnce(ArgumentError("invalid transaction"),
                                SigningFailed("Failed to sign transaction",
                                              ArgumentError("invalid transaction")))
              ELSE /\ outcome' = Returned([signedBy |-> wallet])
                   /\ pc' = "done" /\ caught' = <<>>
                   /\ netCalls' = 0 /\ submissions' = 0 /\ RetryIdle
  /\ identity' = wallet /\ UNCHANGED <<receipt, disconnected, queries>>
  /\ UNCHANGED mvars

\* validatePrivateKey(privateKey): new ethers.Wallet(privateKey) does not throw
validatePrivateKey(k) == k \in Keys

InvalidPrivateKey == PolygonError(<<"Invalid private key">>, "INVALID_PRIVATE_KEY", Undefined)

\* A method of the wallet manager that has no await: it runs to completion
\* when it is called, also between two steps of a call in progress.  Its
\* outcome is recorded when no other call is in progress.
Immediate(o, a, result) ==
  IF Idle
    THEN /\ Begins(o, a)
         /\ outcome' = result
         /\ caught' = IF result.st = "err" THEN result.err ELSE <<>>
         /\ pc' = "done" /\ netCalls' = 0 /\ submissions' = 0 /\ RetryIdle
    ELSE UNCHANGED cvars /\ UNCHANGED rvars

setWallet_assignsFirst ==
  /\ \E privateKey \in Keys \cup {"bad-key"} :
       /\ wallet' = IF validatePrivateKey(privateKey) THEN privateKey ELSE NoWallet
       /\ Immediate("setWallet", [NoArgs EXCEPT !.addr = privateKey],
                    IF validatePrivateKey(privateKey)
                      THEN ReturnedNull ELSE Failed(InvalidPrivateKey))
  /\ UNCHANGED <<binding, signer>> /\ UNCHANGED gvars /\ UNCHANGED hvars

setWallet ==
  /\ \E privateKey \in Keys \cup {"bad-key"} :
       IF validatePrivateKey(privateKey)
         THEN /\ wallet' = privateKey
              /\ Immediate("setWallet", [NoArgs EXCEPT !.addr = privateKey], ReturnedNull)
         ELSE /\ UNCHANGED wallet
              /\ Immediate("setWallet", [NoArgs EXCEPT !.addr = privateKey],
                           Failed(InvalidPrivateKey))
  /\ UNCHANGED <<binding, signer>> /\ UNCHANGED gvars /\ UNCHANGED hvars

\* getCurrentWallet(): null, or the wallet's address and keys
getCurrentWallet ==
  /\ Immediate("getCurrentWallet", NoArgs,
               IF wallet = NoWallet THEN ReturnedNull ELSE Returned([address |-> wallet]))
  /\ UNCHANGED mvars /\ UNCHANGED hvars

\* disconnect(): this.wallet = undefined
PolygonWalletManager_disconnect ==
  /\ wallet' = NoWallet
  /\ Immediate("walletDisconnect", NoArgs, ReturnedNull)
  /\ UNCHANGED <<binding, signer>> /\ UNCHANGED gvars /\ UNCHANGED hvars

\* -------------------------------------------------------- PolygonTokenManager
TokenOps == {"transferToken", "approveToken", "transferFromToken"}
TokenDecimals == {0, 18}

SignerRequired(what) == PolygonError(<<what>>, "SIGNER_REQUIRED", Undefined)

SignerMsg(o) ==
  CASE o = "transferToken" -> "Signer required for token transfer"
    [] o = "approveToken" -> "Signer required for token approval"
    [] o = "transferFromToken" -> "Signer required for transferFrom"
    [] o = "sendContractTransaction" -> "Signer required for contract transactions"
    [] OTHER -> "Signer required for contract deployment"

\* Digits after the point, trailing zeros dropped (ethers parseFixed).
RECURSIVE StripZeros(_)
StripZeros(s) ==
  IF Len(s) > 0 /\ s[Len(s)] = "0" THEN StripZeros(SubSeq(s, 1, Len(s) - 1)) ELSE s

Fraction(s) ==
  IF \E i \in 1..Len(s) : s[i] = "."
    THEN LET i == CHOOSE j \in 1..Len(s) : s[j] = "." IN
         StripZeros(SubSeq(s, i + 1, Len(s)))
    ELSE <<>>

\* parseUnits(value, decimals) returns rather than throws
ParseUnitsOk(s, decimals) == Parsable(s) /\ Len(Fraction(s)) <= decimals

\* formatUnits(value, decimals) returns rather than throws: value must be
\* an integer string (BigNumber.from).
FormatUnitsOk(s) ==
  /\ Len(s) > 0
  /\ \A i \in 1..Len(s) : s[i] \in Digits \/ (i = 1 /\ s[i] = "-" /\ Len(s) > 1)

\* transferToken, approveToken, transferFromToken up to `await contract.decimals()`
TokenSubmit(o) ==
  /\ Idle
  /\ \E to \in Addresses, amount \in Amounts :
       Begins(o, [NoArgs EXCEPT !.addr = to, !.amt = amount])
  /\ IF ~signer
       THEN ThrowsAtOnce(SignerRequired(SignerMsg(o)), SignerRequired(SignerMsg(o)))
       ELSE /\ pc' = "decimals" /\ netCalls' = 1 /\ submissions' = 0
            /\ outcome' = NoOutcome /\ caught' = <<>> /\ RetryIdle
  /\ UNCHANGED mvars /\ UNCHANGED hvars

transferToken == TokenSubmit("transferToken")
approveToken == TokenSubmit("approveToken")
transferFromToken == TokenSubmit("transferFromToken")

\* contract.decimals() answers; the amount is parsed and the retry started.
token_decimals ==
  /\ op \in TokenOps /\ pc = "decimals"
  /\ \E decimals \in TokenDecimals :
       IF ParseUnitsOk(args.amt, decimals)
         THEN /\ StartRetry(op, args, wallet, DefaultMaxRetries, DefaultDelay, netCalls)
              /\ pc' = "retrying"
              /\ UNCHANGED <<outcome, caught>>
         ELSE /\ Throws(ArgumentError("invalid decimal value"),
                        CatchRethrow(binding, FailMsg(op),
                                     ArgumentError("invalid decimal value")))
              /\ UNCHANGED <<netCalls, submissions>> /\ UNCHANGED rvars
  /\ UNCHANGED <<op, args>>
  /\ UNCHANGED mvars /\ UNCHANGED hvars

\* contract.decimals() fails.
token_decimals_failed ==
  /\ op \in TokenOps /\ pc = "decimals"
  /\ Throws(TransportError(netCalls),
            CatchRethrow(binding, FailMsg(op), TransportError(netCalls)))
  /\ UNCHANGED <<op, args, netCalls, submissions>>
  /\ UNCHANGED mvars /\ UNCHANGED hvars /\ UNCHANGED rvars

token_retried == \E o \in TokenOps : AfterRetry(o, FALSE)

\* ----------------------------------------------------- PolygonContractManager
InvalidContractAddress ==
  PolygonError(<<"Invalid contract address">>, "INVALID_ADDRESS", Undefined)

\* sendContractTransaction up to the first call of fn: the signer check, then
\* getContract (which validates the address), then retry.
sendContractTransaction ==
  /\ Idle
  /\ \E address \in Addresses :
       LET a == [NoArgs EXCEPT !.addr = address] IN
       /\ Begins("sendContractTransaction", a)
       /\ IF ~signer
            THEN ThrowsAtOnce(SignerRequired(SignerMsg("sendContractTransaction")),
                              SignerRequired(SignerMsg("sendContractTransaction")))
            ELSE IF ~validateAddress(address)
              THEN ThrowsAtOnce(InvalidContractAddress,
                                CatchRethrow(binding, FailMsg("sendContractTransaction"),
                                             InvalidContractAddress))
              ELSE /\ StartRetry("sendContractTransaction", a, wallet,
                                 DefaultMaxRetries, DefaultDelay, 0)
                   /\ pc' = "retrying" /\ outcome' = NoOutcome /\ caught' = <<>>
  /\ UNCHANGED mvars /\ UNCHANGED hvars

sendContractTransaction_retried == AfterRetry("sendContractTransaction", TRUE)

deployContract ==
  /\ Idle
  /\ Begins("deployContract", NoArgs)
  /\ IF ~signer
       THEN ThrowsAtOnce(SignerRequired(SignerMsg("deployContract")),
                         SignerRequired(SignerMsg("deployContract")))
       ELSE /\ StartRetry("deployContract", NoArgs, wallet,
                          DefaultMaxRetries, DefaultDelay, 0)
            /\ pc' = "retrying" /\ outcome' = NoOutcome /\ caught' = <<>>
  /\ UNCHANGED mvars /\ UNCHANGED hvars

deployContract_retried == AfterRetry("deployContract", TRUE)

\* Number.prototype.toString for integers
RECURSIVE NatStr(_)
NatStr(k) ==
  LET d == <<"0", "1", "2", "3", "4", "5", "6", "7", "8", "9">> IN
  IF k < 10 THEN <<d[k + 1]>> ELSE NatStr(k \div 10) \o <<d[(k % 10) + 1]>>

NumStr(k) == IF k < 0 THEN <<"-">> \o NatStr(-k) ELSE NatStr(k)

DigitVal(c) == CHOOSE k \in 0..9 : NatStr(k) = <<c>>

\* BigNumber.from(decimal string), for a string of digits
RECURSIVE StrNat(_)
StrNat(s) ==
  IF Len(s) = 0 THEN 0
  ELSE 10 * StrNat(SubSeq(s, 1, Len(s) - 1)) + DigitVal(s[Len(s)])

\* A Transfer event as getTokenTransfers returns it: <<from, to, value>>,
\* value a decimal string.
ZeroAddress == "0x0000000000000000000000000000000000000000"

\* balances[k] || 0n
BalanceOr0(balances, k) ==
  IF k \in DOMAIN balances /\ balances[k] # 0 THEN balances[k] ELSE 0

\* balances[k] = v
SetBalance(balances, k, v) ==
  [x \in DOMAIN balances \cup {k} |-> IF x = k THEN v ELSE balances[x]]

\* The body of the loop over the transfers, value being BigInt(transfer.value).
Transfer(balances, t) ==
  LET from == t[1]
      to == t[2]
      value == StrNat(t[3])
      debited ==
        IF from # ZeroAddress
          THEN SetBalance(balances, from, BalanceOr0(balances, from) - value)
          ELSE balances
  IN IF to # ZeroAddress
       THEN SetBalance(debited, to, BalanceOr0(debited, to) + value)
       ELSE debited

\* balances after the loop
RECURSIVE Balances(_)
Balances(transfers) ==
  IF transfers = <<>> THEN <<>>
  ELSE Transfer(Balances(SubSeq(transfers, 1, Len(transfers) - 1)),
                transfers[Len(transfers)])

Holders_nonNegative(transfers) ==
  LET balances == Balances(transfers) IN
  [a \in {k \in DOMAIN balances : balances[k] >= 0} |-> NumStr(balances[a])]

\* result: the entries of balances with balance > 0n, as strings
Holders(transfers) ==
  LET balances == Balances(transfers) IN
  [a \in {k \in DOMAIN balances : balances[k] > 0} |-> NumStr(balances[a])]

MaxTransfers == 3
TransferEvents ==
  { <<from, to, value>> :
      from \in ValidAddresses \cup {ZeroAddress},
      to \in ValidAddresses \cup {ZeroAddress},
      value \in {<<"0">>, <<"2">>} }
\* length of the logs getTokenTransfers answers a getTokenHolders call with
MaxAnswered == 1
RECURSIVE TransferLogs(_)
TransferLogs(n) ==
  IF n = 0 THEN {<<>>}
  ELSE TransferLogs(n - 1)
       \cup {Append(log, t) : log \in TransferLogs(n - 1), t \in TransferEvents}

\* Read operations that wrap another read operation of the same manager:
\* the inner method issues one request and, when it fails, throws
\* new PolygonNetworkError(inner message); the outer catch block throws
\* new PolygonNetworkError(outer message) whatever it caught.
NestedReads == {"isContract", "formatTokenAmount", "parseTokenAmount", "getTokenHolders"}

InnerMsg(o) ==
  CASE o = "isContract" -> "Failed to get contract code"
    [] o = "getTokenHolders" -> "Failed to get token transfers"
    [] OTHER -> "Failed to get token decimals"

OuterMsg(o) ==
  CASE o = "isContract" -> "Failed to check if address is contract"
    [] o = "getTokenHolders" -> "Failed to get token holders"
    [] o = "formatTokenAmount" -> "Failed to format token amount"
    [] OTHER -> "Failed to parse token amount"

NestedRead(o) ==
  /\ Idle
  /\ \E address \in Addresses, amount \in Amounts :
       Begins(o, [NoArgs EXCEPT !.addr = address,
                                !.amt = IF o \in {"formatTokenAmount", "parseTokenAmount"}
                                          THEN amount ELSE <<>>])
  /\ pc' = "read" /\ netCalls' = 1 /\ submissions' = 0
  /\ outcome' = NoOutcome /\ caught' = <<>> /\ RetryIdle
  /\ UNCHANGED mvars /\ UNCHANGED hvars

isContract == NestedRead("isContract")
formatTokenAmount == NestedRead("formatTokenAmount")
parseTokenAmount == NestedRead("parseTokenAmount")
getTokenHolders == NestedRead("getTokenHolders")

\* The inner request is answered.
read_answered ==
  /\ op \in NestedReads /\ pc = "read"
  /\ IF op = "getTokenHolders"
       THEN /\ \E transfers \in TransferLogs(MaxAnswered) :
                 outcome' = Returned(Holders(transfers))
            /\ pc' = "done" /\ UNCHANGED caught
       ELSE \E decimals \in TokenDecimals :
              IF \/ op = "parseTokenAmount" /\ ~ParseUnitsOk(args.amt, decimals)
                 \/ op = "formatTokenAmount" /\ ~FormatUnitsOk(args.amt)
                THEN Throws(ArgumentError("invalid decimal value"),
                            PolygonNetworkError(binding, OuterMsg(op),
                                                ArgumentError("invalid decimal value")))
                ELSE /\ outcome' = Returned([decimals |-> decimals, of |-> op])
                     /\ pc' = "done" /\ UNCHANGED caught
  /\ UNCHANGED <<op, args, netCalls, submissions>>
  /\ UNCHANGED mvars /\ UNCHANGED hvars /\ UNCHANGED rvars

\* The inner request fails: the inner method throws, the outer one wraps.
read_failed ==
  /\ op \in NestedReads /\ pc = "read"
  /\ LET inner == PolygonNetworkError(binding, InnerMsg(op), TransportError(netCalls)) IN
     Throws(inner, PolygonNetworkError(binding, OuterMsg(op), inner))
  /\ UNCHANGED <<op, args, netCalls, submissions>>
  /\ UNCHANGED mvars /\ UNCHANGED hvars /\ UNCHANGED rvars

\* ------------------------------------- PolygonDeFiManager, PolygonLicenseManager
\* !amount || amount === '0'
BadAmount(s) == s = <<>> \/ s = <<"0">>

\* catch (error) { throw new PolygonError(`${prefix}${error.message}`, code) }
StubCatch(prefix, code, e) == PolygonError(<<prefix>> \o e.msg, code, Undefined)

AmountCatch_wrapping(prefix, code, e) == StubCatch(prefix, code, e)

\* catch (error) { if (error instanceof InvalidAmountError) throw error; ... }
AmountCatch(prefix, code, e) ==
  IF InstanceOfInvalidAmountError(e) THEN e ELSE StubCatch(prefix, code, e)

\* A method without any await: it throws e1 in its try block.
Stub(o, a, e1, e2) ==
  /\ Idle
  /\ Begins(o, a)
  /\ ThrowsAtOnce(e1, e2)
  /\ UNCHANGED mvars /\ UNCHANGED hvars

getPools ==
  Stub("getPools", NoArgs, NotImplementedError,
       StubCatch("Failed to get pools: ", "GET_POOLS_ERROR", NotImplementedError))

addLiquidity ==
  \E amountA \in Amounts, amountB \in Amounts :
    LET e == IF BadAmount(amountA) \/ BadAmount(amountB)
               THEN InvalidAmountError(amountA \o <<"-">> \o amountB)
               ELSE NotImplementedError IN
    Stub("addLiquidity", [NoArgs EXCEPT !.amt = amountA, !.amt2 = amountB], e,
         AmountCatch("Failed to add liquidity: ", "ADD_LIQUIDITY_ERROR", e))

removeLiquidity ==
  \E lpTokenAmount \in Amounts :
    LET e == IF BadAmount(lpTokenAmount)
               THEN InvalidAmountError(lpTokenAmount)
               ELSE NotImplementedError IN
    Stub("removeLiquidity", [NoArgs EXCEPT !.amt = lpTokenAmount], e,
         AmountCatch("Failed to remove liquidity: ", "REMOVE_LIQUIDITY_ERROR", e))

swap ==
  \E amountIn \in Amounts, amountOutMin \in Amounts :
    LET e == IF BadAmount(amountIn) THEN InvalidAmountError(amountIn)
             ELSE IF BadAmount(amountOutMin) THEN InvalidAmountError(amountOutMin)
             ELSE NotImplementedError IN
    Stub("swap", [NoArgs EXCEPT !.amt = amountIn, !.amt2 = amountOutMin], e,
         AmountCatch("Failed to swap: ", "SWAP_ERROR", e))

getQuote ==
  \E amountIn \in Amounts :
    LET e == IF BadAmount(amountIn) THEN InvalidAmountError(amountIn)
             ELSE NotImplementedError IN
    Stub("getQuote", [NoArgs EXCEPT !.amt = amountIn], e,
         AmountCatch("Failed to get quote: ", "QUOTE_ERROR", e))

\* License and NFT operations: the catch block throws its own error whatever
\* the try block threw.
Ids == {<<"7">>, <<"4", "2">>}

createLicense ==
  Stub("createLicense", NoArgs, NotImplementedError,
       StubCatch("Failed to create license: ", "CREATE_LICENSE_ERROR", NotImplementedError))

getLicense ==
  \E licenseId \in Ids :
    Stub("getLicense", [NoArgs EXCEPT !.amt = licenseId], NotImplementedError,
         LicenseNotFoundError(licenseId))

mint ==
  Stub("mint", NoArgs, NotImplementedError,
       StubCatch("Failed to mint NFT: ", "MINT_ERROR", NotImplementedError))

getNFT ==
  \E tokenId \in Ids :
    Stub("getNFT", [NoArgs EXCEPT !.amt = tokenId], NotImplementedError,
         NFTNotFoundError(tokenId))

Times == {-1, 0, 30}

extendLicense ==
  \E additionalTime \in Times :
    LET e == IF additionalTime <= 0 THEN InvalidAmountError(NumStr(additionalTime))
             ELSE NotImplementedError IN
    Stub("extendLicense", [NoArgs EXCEPT !.num = additionalTime], e,
         AmountCatch("Failed to extend license: ", "EXTEND_LICENSE_ERROR", e))

\* --------------------------------- PolygonContractManager: transaction lookup
\* getTransaction(txHash) up to `await this.provider.getTransaction(txHash)`
getTransaction ==
  /\ Idle
  /\ Begins("getTransaction", NoArgs)
  /\ pc' = "tx" /\ netCalls' = 1 /\ submissions' = 0
  /\ outcome' = NoOutcome /\ caught' = <<>> /\ RetryIdle
  /\ UNCHANGED mvars /\ UNCHANGED hvars

\* provider.getTransaction answers: null, or the transaction; for a known
\* transaction the receipt is requested.
getTransaction_tx ==
  /\ op = "getTransaction" /\ pc = "tx"
  /\ \E known \in BOOLEAN :
       IF ~known
         THEN /\ outcome' = ReturnedNull /\ pc' = "done" /\ UNCHANGED netCalls
         ELSE /\ pc' = "receipt" /\ netCalls' = netCalls + 1 /\ UNCHANGED outcome
  /\ UNCHANGED <<op, args, submissions, caught>>
  /\ UNCHANGED mvars /\ UNCHANGED hvars /\ UNCHANGED rvars

\* provider.getTransactionReceipt answers: null while the transaction is not
\* mined, or the receipt.
getTransaction_receipt ==
  /\ op = "getTransaction" /\ pc = "receipt"
  /\ \E r \in {NoReceipt, 0, 1} :
       /\ receipt' = r
       /\ outcome' = Returned(TxRecord([n |-> 1], r))
  /\ pc' = "done"
  /\ UNCHANGED <<op, args, netCalls, submissions, caught>>
  /\ UNCHANGED <<identity, disconnected, queries>>
  /\ UNCHANGED mvars /\ UNCHANGED rvars

\* waitForTransaction(txHash) up to `await this.provider.waitForTransaction(...)`
waitForTransaction ==
  /\ Idle
  /\ Begins("waitForTransaction", NoArgs)
  /\ pc' = "mined" /\ netCalls' = 1 /\ submissions' = 0
  /\ outcome' = NoOutcome /\ caught' = <<>> /\ RetryIdle
  /\ UNCHANGED mvars /\ UNCHANGED hvars

\* The transaction is mined: the receipt arrives.
waitForTransaction_mined ==
  /\ op = "waitForTransaction" /\ pc = "mined"
  /\ \E r \in {0, 1} :
       /\ receipt' = r
       /\ outcome' = Returned(TxRecord([n |-> 1], r))
  /\ pc' = "done"
  /\ UNCHANGED <<op, args, netCalls, submissions, caught>>
  /\ UNCHANGED <<identity, disconnected, queries>>
  /\ UNCHANGED mvars /\ UNCHANGED rvars

LookupMsg(o) ==
  IF o = "getTransaction" THEN "Failed to get transaction"
                          ELSE "Failed to wait for transaction"

\* A request of getTransaction or waitForTransaction fails; the catch block
\* wraps whatever it gets.
lookup_failed ==
  /\ op \in {"getTransaction", "waitForTransaction"} /\ pc \in {"tx", "receipt", "mined"}
  /\ Throws(TransportError(netCalls),
            PolygonNetworkError(binding, LookupMsg(op), TransportError(netCalls)))
  /\ UNCHANGED <<op, args, netCalls, submissions>>
  /\ UNCHANGED mvars /\ UNCHANGED hvars /\ UNCHANGED rvars

\* ------------------------------------------- LicenseChainPolygon (facade)
\* The managers in the order of the array passed to Promise.all.
Managers == <<"license", "nft", "defi", "contract", "token", "wallet">>

\* The manager classes that define a disconnect method.
HasDisconnect(m) == m \in {"contract", "token", "wallet"}

\* The array elements are evaluated from left to right; calling a method the
\* manager does not have throws a TypeError and ends the evaluation.
FirstMissing ==
  IF \E i \in 1..Len(Managers) : ~HasDisconnect(Managers[i])
    THEN CHOOSE i \in 1..Len(Managers) :
           /\ ~HasDisconnect(Managers[i])
           /\ \A j \in 1..(i - 1) : HasDisconnect(Managers[j])
    ELSE Len(Managers) + 1

LicenseChainPolygon_disconnect ==
  /\ Idle
  /\ Begins("disconnect", NoArgs)
  /\ disconnected' = {Managers[i] : i \in 1..(FirstMissing - 1)}
  /\ wallet' = IF "wallet" \in disconnected' THEN NoWallet ELSE wallet
  /\ outcome' = IF FirstMissing <= Len(Managers)
                  THEN Failed(TypeError("disconnect is not a function"))
                  ELSE ReturnedNull
  /\ pc' = "done" /\ caught' = <<>>
  /\ netCalls' = 0 /\ submissions' = 0 /\ RetryIdle
  /\ UNCHANGED <<binding, signer>> /\ UNCHANGED gvars
  /\ UNCHANGED <<identity, receipt, queries>>

\* new PolygonAccountError(message, address, error): the facade imports the
\* name from './errors' like PolygonNetworkError; where the import resolves,
\* the class is taken to be a PolygonError carrying the cause.
PolygonAccountError(b, message, address, error) ==
  IF b = "unbound"
    THEN TypeError("PolygonAccountError is not a constructor")
    ELSE PolygonError(<<message>>, "ACCOUNT_ERROR", DataErr(error))

\* catch (error) { if (error instanceof PolygonError) throw error;
\*                 throw new PolygonAccountError('Failed to get account', address, error) }
AccountCatch(b, address, e) ==
  IF InstanceOfPolygonError(e) THEN e
  ELSE PolygonAccountError(b, "Failed to get account", address, e)

QueryMsg(q) ==
  CASE q = "balance" -> "Failed to get contract balance"
    [] q = "transactionCount" -> "Failed to get transaction count"
    [] OTHER -> "Failed to get contract code"

\* What the node answers to a query.
Answers(q) == IF q = "code" THEN {"0x", "0x60"} ELSE {"7"}

\* getAccount(address) up to `await Promise.all([...])`: formatAddress throws
\* for a malformed address; otherwise the three queries are issued.
getAccount ==
  /\ Idle
  /\ \E address \in Addresses :
       /\ Begins("getAccount", [NoArgs EXCEPT !.addr = address])
       /\ IF ~validateAddress(address)
            THEN /\ ThrowsAtOnce(ArgumentError("invalid address"),
                                 AccountCatch(binding, address, ArgumentError("invalid address")))
                 /\ UNCHANGED queries
            ELSE /\ queries' = [code |-> "pending", balance |-> "pending",
                                transactionCount |-> "pending"]
                 /\ pc' = "joining" /\ netCalls' = 3 /\ submissions' = 0
                 /\ outcome' = NoOutcome /\ caught' = <<>> /\ RetryIdle
  /\ UNCHANGED <<identity, receipt, disconnected>>
  /\ UNCHANGED mvars

\* One of the pending queries is answered; when it was the last one,
\* Promise.all resolves and getAccount returns the account.
getAccount_answered ==
  /\ op = "getAccount" /\ pc = "joining"
  /\ \E q \in Queries :
       /\ queries[q] = "pending"
       /\ \E v \in Answers(q) : queries' = [queries EXCEPT ![q] = v]
  /\ IF \A q \in Queries : queries'[q] # "pending"
       THEN /\ outcome' = Returned([balance |-> queries'.balance,
                                    transactionCount |-> queries'.transactionCount,
                                    address |-> args.addr,
                                    isContract |-> queries'.code # "0x"])
            /\ pc' = "done"
       ELSE UNCHANGED <<outcome, pc>>
  /\ UNCHANGED <<op, args, netCalls, submissions, caught>>
  /\ UNCHANGED <<identity, receipt, disconnected>>
  /\ UNCHANGED mvars /\ UNCHANGED rvars

\* One of the pending queries fails: the manager method throws
\* new PolygonNetworkError(...), Promise.all rejects with it at once and the
\* catch block of getAccount runs.
getAccount_failed ==
  /\ op = "getAccount" /\ pc = "joining"
  /\ \E q \in Queries :
       /\ queries[q] = "pending"
       /\ queries' = [queries EXCEPT ![q] = "failed"]
       /\ LET e == PolygonNetworkError(binding, QueryMsg(q), TransportError(netCalls)) IN
          Throws(e, AccountCatch(binding, args.addr, e))
  /\ UNCHANGED <<op, args, netCalls, submissions>>
  /\ UNCHANGED <<identity, receipt, disconnected>>
  /\ UNCHANGED mvars /\ UNCHANGED rvars

\* Partial<PolygonConfig>: a field that is not given is Absent / 0.
Absent == "absent"
PartialConfigs ==
  { [rpcUrl |-> u, networkId |-> i] :
      u \in RpcUrls \cup {Absent}, i \in NetworkIds \cup {0} }

\* { ...old, ...newConfig }
MergeConfig(old, newConfig) ==
  [rpcUrl |-> IF newConfig.rpcUrl = Absent THEN old.rpcUrl ELSE newConfig.rpcUrl,
   networkId |-> IF newConfig.networkId = 0 THEN old.networkId ELSE newConfig.networkId]

ManagerUpdateConfig_merging(old, newConfig) ==
  [rpcUrl |-> newConfig.rpcUrl, networkId |-> old.networkId]

\* updateConfig(newConfig) of a manager: this.config = newConfig
ManagerUpdateConfig(old, newConfig) == newConfig

\* LicenseChainPolygon.updateConfig: a synchronous method, callable at any
\* moment between two steps of a call in progress.
updateConfig ==
  /\ \E newConfig \in PartialConfigs :
       /\ config' = MergeConfig(config, newConfig)
       /\ licenseConfig' = ManagerUpdateConfig(licenseConfig, config')
       /\ nftConfig' = ManagerUpdateConfig(nftConfig, config')
       /\ deFiConfig' = ManagerUpdateConfig(deFiConfig, config')
  /\ UNCHANGED <<binding, signer, wallet>>
  /\ UNCHANGED cvars /\ UNCHANGED rvars /\ UNCHANGED hvars

\* ------------------------------------------------ confirmation (tx.wait())
\* contract.deployed() returns: the deployment is mined.
deployContract_deployed ==
  /\ op = "deployContract" /\ pc = "wait"
  /\ outcome' = Returned([transactionHash |-> settle[1].val[1].n])
  /\ receipt' = 1
  /\ pc' = "done"
  /\ UNCHANGED <<op, args, netCalls, submissions, caught>>
  /\ UNCHANGED <<identity, disconnected, queries>>
  /\ UNCHANGED mvars /\ UNCHANGED rvars

\* The receipt of the submitted transaction arrives.
ReceiptArrives ==
  /\ op \in {"sendTransaction", "sendContractTransaction"} /\ pc = "wait"
  /\ \E receiptStatus \in {0, 1} :
       /\ receipt' = receiptStatus
       /\ outcome' = Returned(TxRecord(settle[1].val[1], receiptStatus))
  /\ pc' = "done"
  /\ UNCHANGED <<op, args, netCalls, submissions, caught>>
  /\ UNCHANGED <<identity, disconnected, queries>>
  /\ UNCHANGED mvars /\ UNCHANGED rvars

WaitFails_resubmits ==
  /\ pc = "wait"
  /\ pc' = "retrying"
  /\ Invoke(op, args, wallet, netCalls, submissions, invocations, inFlight, signedWith)
  /\ UNCHANGED <<op, args, outcome, caught>>
  /\ UNCHANGED <<maxRetries, delay, attempts, timer, delays, fired, waited, fnLog, settle>>
  /\ UNCHANGED mvars /\ UNCHANGED hvars

\* Waiting for the receipt fails.
WaitFails ==
  /\ pc = "wait"
  /\ Throws(TransportError(netCalls),
            CatchRethrow(binding, FailMsg(op), TransportError(netCalls)))
  /\ UNCHANGED <<op, args, netCalls, submissions>>
  /\ UNCHANGED mvars /\ UNCHANGED hvars /\ UNCHANGED rvars

\* The caller has received the settled promise; the manager is ready for
\* the next call.
Returns ==
  /\ pc = "done"
  /\ pc' = "idle" /\ op' = "none" /\ args' = NoArgs
  /\ netCalls' = 0 /\ submissions' = 0 /\ outcome' = NoOutcome /\ caught' = <<>>
  /\ RetryIdle
  /\ identity' = NoWallet /\ receipt' = NoReceipt /\ disconnected' = {}
  /\ queries' = NoQueries
  /\ UNCHANGED mvars

Next ==
  \/ retry_call
  \/ retry_settled
  \/ FnResolves
  \/ FnRejects
  \/ FnThrows
  \/ FnEstimated
  \/ TimerFires
  \/ sendTransaction
  \/ sendTransaction_retried
  \/ signMessage
  \/ signTransaction
  \/ transferToken
  \/ approveToken
  \/ transferFromToken
  \/ token_decimals
  \/ token_decimals_failed
  \/ token_retried
  \/ sendContractTransaction
  \/ sendContractTransaction_retried
  \/ deployContract
  \/ deployContract_retried
  \/ isContract
  \/ formatTokenAmount
  \/ parseTokenAmount
  \/ getTokenHolders
  \/ read_answered
  \/ read_failed
  \/ getPools
  \/ addLiquidity
  \/ removeLiquidity
  \/ swap
  \/ getQuote
  \/ extendLicense
  \/ createLicense
  \/ getLicense
  \/ mint
  \/ getNFT
  \/ deployContract_deployed
  \/ ReceiptArrives
  \/ WaitFails
  \/ getTransaction
  \/ getTransaction_tx
  \/ getTransaction_receipt
  \/ waitForTransaction
  \/ waitForTransaction_mined
  \/ lookup_failed
  \/ LicenseChainPolygon_disconnect
  \/ getAccount
  \/ getAccount_answered
  \/ getAccount_failed
  \/ updateConfig
  \/ setWallet
  \/ getCurrentWallet
  \/ PolygonWalletManager_disconnect
  \/ Returns

Spec == Init /\ [][Next]_vars

\* Every invocation of fn settles and every timer fires.
LiveSpec ==
  /\ Init /\ [][Next]_vars
  /\ WF_vars(FnResolves \/ FnRejects \/ FnThrows)
  /\ WF_vars(TimerFires)

\* ------------------------------------------------- pure functions (utils.ts)
RECURSIVE Pow10(_)
Pow10(k) == IF k <= 0 THEN 1 ELSE 10 * Pow10(k - 1)

\* while (fraction.length < n) { fraction = "0" + fraction; }
RECURSIVE PadLeft(_, _)
PadLeft(s, n) == IF Len(s) < n THEN PadLeft(<<"0">> \o s, n) ELSE s

\* while (fraction.length < n) { fraction += "0"; }
RECURSIVE PadRight(_, _)
PadRight(s, n) == IF Len(s) < n THEN PadRight(s \o <<"0">>, n) ELSE s

\* fraction.match(/^([0-9]*[1-9]|0)(0*)/)[1]
StripFraction(s) == IF StripZeros(s) = <<>> THEN <<"0">> ELSE StripZeros(s)

formatUnits_unpadded(value, decimals) ==
  LET multiplier == Pow10(decimals)
      v == StrNat(value)
  IN IF decimals = 0 THEN NatStr(v \div multiplier)
     ELSE NatStr(v \div multiplier) \o <<".">> \o StripFraction(NatStr(v % multiplier))

\* formatUnits(value, decimals): ethers.utils.formatUnits, that is formatFixed
formatUnits(value, decimals) ==
  LET negative == Len(value) > 0 /\ value[1] = "-"
      multiplier == Pow10(decimals)
      v == StrNat(IF negative THEN Tail(value) ELSE value)
      fraction == StripFraction(PadLeft(NatStr(v % multiplier), decimals))
      whole == NatStr(v \div multiplier)
      text == IF decimals = 0 THEN whole ELSE whole \o <<".">> \o fraction
  IN IF negative THEN <<"-">> \o text ELSE text

\* parseUnits(value, decimals): ethers.utils.parseUnits(...).toString(), that
\* is parseFixed, for a value ParseUnitsOk accepts
parseUnits(value, decimals) ==
  LET negative == value[1] = "-"
      v == IF negative THEN Tail(value) ELSE value
      pointed == \E j \in 1..Len(v) : v[j] = "."
      i == IF pointed THEN CHOOSE j \in 1..Len(v) : v[j] = "." ELSE 0
      comps0 == IF pointed THEN SubSeq(v, 1, i - 1) ELSE v
      comps1 == IF pointed THEN SubSeq(v, i + 1, Len(v)) ELSE <<>>
      whole == IF comps0 = <<>> THEN <<"0">> ELSE comps0
      fraction == PadRight(StripFraction(comps1), decimals)
      wei == StrNat(whole) * Pow10(decimals) + StrNat(fraction)
  IN NumStr(IF negative THEN -wei ELSE wei)

\* Inputs of the pure functions.
MaxX == 250
MaxDec == 4

\* A call of a pure function: it returns at once and touches no manager.
Applies(o, result) ==
  /\ pc = "idle" /\ op = o
  /\ outcome' = result /\ pc' = "done"
  /\ UNCHANGED <<op, args, netCalls, submissions, caught>>
  /\ UNCHANGED mvars /\ UNCHANGED hvars /\ UNCHANGED rvars

\* [a-fA-F0-9]
HexDigits ==
  Digits \cup {"a", "b", "c", "d", "e", "f"} \cup {"A", "B", "C", "D", "E", "F"}

\* {64}
HashDigits == 64

validateTxHash_unanchored(txHash) ==
  /\ Len(txHash) >= 2 /\ txHash[1] = "0" /\ txHash[2] = "x"
  /\ Len(txHash) >= 2 + HashDigits
  /\ \A i \in 3..(2 + HashDigits) : txHash[i] \in HexDigits

\* /^0x[a-fA-F0-9]{64}$/.test(txHash): the pattern is matched from the first
\* character ("^"), and "$", without the m flag, matches at the end of the
\* input only
validateTxHash(txHash) ==
  /\ Len(txHash) >= 2 /\ txHash[1] = "0" /\ txHash[2] = "x"
  /\ Len(txHash) >= 2 + HashDigits
  /\ \A i \in 3..(2 + HashDigits) : txHash[i] \in HexDigits
  /\ Len(txHash) = 2 + HashDigits

call_validateTxHash ==
  Applies("validateTxHash", Returned(validateTxHash(args.amt)))

\* n times the character c
Fill(c, n) == [i \in 1..n |-> c]

\* Strings around the accepted length: a prefix, a run of one character and
\* a suffix; and well-formed hashes of mixed case with one character replaced.
HashInputs ==
  { pre \o Fill(c, n) \o suf :
      pre \in {<<>>, <<"0", "x">>, <<"0", "X">>, <<"x", "0">>, <<" ", "0", "x">>},
      c \in {"a", "F", "7", "g", "x"},
      n \in {0, 3, HashDigits - 1, HashDigits, HashDigits + 1, 2 * HashDigits},
      suf \in {<<>>, <<"b">>, <<"\n">>, <<" ">>} }
  \cup
  { <<"0", "x">> \o Fill("a", k) \o <<b>> \o Fill("E", HashDigits - 1 - k) :
      k \in {0, 31, HashDigits - 1}, b \in {"9", "c", "G", "-", ".", " "} }

call_formatUnits ==
  /\ FormatUnitsOk(args.amt)
  /\ Applies("formatUnits", Returned(formatUnits(args.amt, args.num)))

\* The caller hands the text formatUnits returned to parseUnits, with the
\* same decimals; amt2 keeps the value formatUnits was given.
call_parseUnits ==
  /\ pc = "done" /\ op = "formatUnits" /\ outcome.st = "ok"
  /\ op' = "parseUnits"
  /\ args' = [args EXCEPT !.amt = outcome.val[1], !.amt2 = args.amt]
  /\ outcome' = IF ParseUnitsOk(outcome.val[1], args.num)
                  THEN Returned(parseUnits(outcome.val[1], args.num))
                  ELSE Failed(ArgumentError("invalid decimal value"))
  /\ UNCHANGED <<pc, netCalls, submissions, caught>>
  /\ UNCHANGED mvars /\ UNCHANGED hvars /\ UNCHANGED rvars

\* getTokenHolders after `await this.getTokenTransfers(...)` has returned the
\* transfers held in amt
call_getTokenHolders ==
  Applies("getTokenHolders", Returned(Holders(args.amt)))


\* ------------------------------------------------ constructors (errors.ts)
ErrorKinds ==
  {"InsufficientBalanceError", "TransactionFailedError", "LicenseNotFoundError",
   "NFTNotFoundError", "InvalidAmountError", "NetworkError", "ContractError"}

\* new K(a, b); the classes of one parameter ignore b
Construct(k, a, b) ==
  CASE k = "InsufficientBalanceError" -> InsufficientBalanceError(a, b)
    [] k = "TransactionFailedError" -> TransactionFailedError(a, b)
    [] k = "LicenseNotFoundError" -> LicenseNotFoundError(a)
    [] k = "NFTNotFoundError" -> NFTNotFoundError(a)
    [] k = "InvalidAmountError" -> InvalidAmountError(a)
    [] k = "NetworkError" -> NetworkError(a)
    [] OTHER -> ContractError(a, b)

new_error ==
  \E k \in ErrorKinds : Applies(k, Returned(Construct(k, args.amt, args.amt2)))

UtilInputs ==
  \/ /\ op = "formatUnits"
     /\ \E x \in 0..MaxX, d \in 0..MaxDec :
          args = [NoArgs EXCEPT !.amt = NatStr(x), !.num = d]
  \/ /\ op = "validateTxHash"
     /\ \E s \in HashInputs : args = [NoArgs EXCEPT !.amt = s]
  \/ /\ op = "getTokenHolders"
     /\ \E transfers \in TransferLogs(MaxTransfers) :
          args = [NoArgs EXCEPT !.amt = transfers]
  \/ /\ op \in ErrorKinds
     /\ \E a \in Amounts, b \in Amounts :
          args = [NoArgs EXCEPT !.amt = a, !.amt2 = b]

UtilInit ==
  /\ binding = "NetworkError" /\ signer = FALSE /\ wallet = NoWallet
  /\ pc = "idle" /\ UtilInputs
  /\ netCalls = 0 /\ submissions = 0 /\ outcome = NoOutcome /\ caught = <<>>
  /\ rstate = "none" /\ maxRetries = 0 /\ delay = 0 /\ attempts = 0
  /\ invocations = 0 /\ inFlight = 0 /\ fnPhase = "none" /\ timer = -1
  /\ delays = <<>> /\ fired = 0 /\ waited = 0 /\ fnLog = <<>> /\ settle = <<>>
  /\ signedWith = {}
  /\ config = InitialConfig /\ licenseConfig = InitialConfig
  /\ nftConfig = InitialConfig /\ deFiConfig = InitialConfig
  /\ identity = NoWallet /\ receipt = NoReceipt /\ disconnected = {} /\ queries = NoQueries

UtilNext ==
  \/ call_formatUnits
  \/ call_parseUnits
  \/ call_validateTxHash
  \/ call_getTokenHolders
  \/ new_error

UtilSpec == UtilInit /\ [][UtilNext]_vars

\* ------------------------------------------------------------- properties
RetryActive == rstate # "none"
AllFailed == \A i \in 1..Len(fnLog) : ~fnLog[i].ok

\* C1: retry termination.  With a cap N >= 1, as long as every invocation of
\* the operation has failed, retry has made at most N invocations; it rejects
\* exactly when the N-th invocation has failed, with the error of that
\* invocation as it was thrown, and a direct caller receives that same error.
C1_RetryTermination ==
  (RetryActive /\ maxRetries >= 1 /\ AllFailed) =>
    /\ invocations <= maxRetries
    /\ rstate # "resolved"
    /\ (rstate = "rejected") <=> (Len(fnLog) = maxRetries)
    /\ rstate = "rejected" =>
         /\ invocations = maxRetries
         /\ settle = <<Err(fnLog[maxRetries].err[1])>>
         /\ (op = "retry" /\ pc = "done") => outcome = Failed(fnLog[maxRetries].err[1])

C1_Witness ==
  /\ op = "retry" /\ pc = "done" /\ maxRetries >= 3
  /\ invocations = maxRetries /\ AllFailed
  /\ outcome = Failed(TransportError(maxRetries))

\* C2: retry short-circuit.  When retry has resolved (cap N >= 1), the
\* invocation that succeeded is the last one made, K <= N, all invocations
\* before it failed, the value resolved with is the result of invocation K,
\* and nothing is pending: no timer and no invocation in flight.
C2_RetryShortCircuit ==
  (rstate = "resolved" /\ maxRetries >= 1) =>
    /\ invocations <= maxRetries
    /\ Len(fnLog) = invocations
    /\ fnLog[invocations] = Ok([n |-> invocations])
    /\ \A i \in 1..(invocations - 1) : ~fnLog[i].ok
    /\ settle = <<fnLog[invocations]>>
    /\ timer = -1 /\ inFlight = 0
    /\ Len(delays) = invocations - 1 /\ fired = invocations - 1
    /\ (op = "retry" /\ pc = "done") => outcome = Returned([n |-> invocations])

C2_Witness ==
  /\ op = "retry" /\ pc = "done" /\ outcome.st = "ok"
  /\ invocations = 2 /\ maxRetries >= 3 /\ ~fnLog[1].ok

\* C3: backoff schedule.  The k-th timer retry schedules, after the k-th
\* failed attempt, has delay D * 2^(k-1); timers are only scheduled after
\* failed attempts 1..N-1; the wait accumulated when attempt K starts is
\* D * (2^(K-1) - 1); with D = 1000 and N = 3 the delays are 1000, 2000.
C3_BackoffSchedule ==
  RetryActive =>
    /\ \A k \in 1..Len(delays) : delays[k] = delay * 2^(k - 1)
    /\ Len(delays) <= attempts /\ (maxRetries >= 1 => Len(delays) < maxRetries)
    /\ timer >= 0 => timer = delay * 2^(attempts - 1)
    /\ waited = delay * (2^fired - 1)
    /\ rstate = "inflight" => waited = delay * (2^(invocations - 1) - 1)
    /\ (delay = 1000 /\ maxRetries = 3 /\ Len(delays) = 2) => delays = <<1000, 2000>>

C3_Witness ==
  /\ delay = 1000 /\ maxRetries = 3 /\ rstate = "inflight"
  /\ invocations = 3 /\ delays = <<1000, 2000>> /\ waited = 3000

\* C4: sequential attempts.  At most one invocation of the operation is in
\* flight; an invocation is in flight only when every earlier invocation has
\* failed and one timer has fired per earlier invocation; while a timer is
\* pending no invocation is in flight.
C4_SequentialAttempts ==
  /\ inFlight <= 1
  /\ RetryActive =>
       /\ invocations = fired + 1
       /\ rstate = "inflight" =>
            /\ inFlight = 1 /\ timer = -1
            /\ Len(fnLog) = invocations - 1 /\ attempts = invocations - 1
            /\ \A i \in 1..Len(fnLog) : ~fnLog[i].ok
       /\ rstate = "timer" =>
            /\ inFlight = 0 /\ timer >= 0
            /\ Len(fnLog) = invocations /\ attempts = invocations

C4_Witness ==
  /\ rstate = "inflight" /\ invocations = 3 /\ fired = 2 /\ inFlight = 1
  /\ Len(fnLog) = 2

RetryOps == {"sendTransaction", "sendContractTransaction", "deployContract"} \cup TokenOps
WalletOps == {"sendTransaction", "signMessage", "signTransaction"}
MutatingOps == RetryOps \cup WalletOps
Settled == pc = "done" /\ outcome.st # "none"
FailedWith(code) == outcome.st = "err" /\ outcome.err[1].code = code

\* The call in progress was given a malformed input.
MalformedInput ==
  \/ op \in {"sendTransaction", "sendContractTransaction"} /\ ~validateAddress(args.addr)
  \/ op \in {"sendTransaction"} \cup TokenOps /\ ~Parsable(args.amt)

\* C5: validation failures are never retried and never surface as a network
\* error.  A manager operation that uses retry and is given a malformed
\* input never invokes the retried submission, and fails with an error that
\* is not a NetworkError.
C5_ValidationNotRetried ==
  (op \in RetryOps /\ MalformedInput /\ Settled) =>
    /\ invocations = 0
    /\ outcome.st = "err" /\ outcome.err[1].code # "NETWORK_ERROR"

\* The instance has no signing identity for the operation in progress.
NoIdentity == IF op \in WalletOps THEN identity = NoWallet ELSE ~signer

\* C6: signer requirement.  A state-mutating manager operation invoked
\* without a signing identity fails with code SIGNER_REQUIRED and makes no
\* network call.
C6_SignerRequired ==
  (op \in MutatingOps /\ NoIdentity) =>
    /\ netCalls = 0
    /\ Settled => FailedWith("SIGNER_REQUIRED")

\* C7: error pass-through.  When the error raised inside an operation is
\* already a PolygonError, the caller receives that same error.
C7_ErrorPassThrough ==
  (Settled /\ op # "retry" /\ caught # <<>> /\ InstanceOfPolygonError(caught[1])) =>
    outcome = Failed(caught[1])

TaxonomyCodes ==
  {"INVALID_ADDRESS", "INVALID_AMOUNT", "INSUFFICIENT_BALANCE", "SIGNER_REQUIRED",
   "TRANSACTION_FAILED", "NOT_FOUND", "NETWORK_ERROR", "CONTRACT_ERROR",
   "NOT_IMPLEMENTED"}

\* C8: closed error-code set.  Every failure of a manager operation is a
\* PolygonError whose code is one of the nine taxonomy codes.
C8_ClosedCodeSet ==
  (Settled /\ op # "retry" /\ outcome.st = "err") =>
    /\ InstanceOfPolygonError(outcome.err[1])
    /\ outcome.err[1].code \in TaxonomyCodes

AmountOps ==
  {"addLiquidity", "removeLiquidity", "swap", "getQuote", "extendLicense",
   "sendTransaction"} \cup TokenOps

\* The call in progress was given an amount that is "0", empty or, for
\* extendLicense, not positive.
ZeroOrEmptyAmount ==
  \/ op \in (AmountOps \ {"extendLicense"}) /\ BadAmount(args.amt)
  \/ op \in {"addLiquidity", "swap"} /\ BadAmount(args.amt2)
  \/ op = "extendLicense" /\ args.num <= 0

\* C9: fail-fast on invalid amount.  An amount-taking operation given such
\* an amount (its other arguments being valid, on an instance that has the
\* signing identity the operation needs) fails with INVALID_AMOUNT and makes
\* no network call.
C9_FailFastInvalidAmount ==
  (/\ op \in AmountOps /\ ZeroOrEmptyAmount
   /\ op \in MutatingOps => (~NoIdentity /\ validateAddress(args.addr))) =>
    /\ netCalls = 0
    /\ Settled => FailedWith("INVALID_AMOUNT")

\* The retried submission failed on every attempt for a transport reason.
TransportExhausted ==
  /\ op \in RetryOps /\ rstate = "rejected"
  /\ \A i \in 1..Len(fnLog) : ~fnLog[i].ok /\ fnLog[i].err[1] = TransportError(i)

\* C10: transport failures of a mutating submission are retried up to the
\* cap of 3 attempts, and then the manager operation fails with code
\* NETWORK_ERROR and the failure of the last attempt in the error's data.
C10_NetworkErrorAfterRetries ==
  (TransportExhausted /\ Settled) =>
    /\ invocations = DefaultMaxRetries
    /\ FailedWith("NETWORK_ERROR")
    /\ outcome.err[1].data.err = <<fnLog[DefaultMaxRetries].err[1]>>

\* The operations that return a transaction record.
RecordOps ==
  {"sendTransaction", "sendContractTransaction", "getTransaction", "waitForTransaction"}

\* C11: transaction status derivation.  In every transaction record a
\* manager returns, status is 'success' exactly when the receipt's status
\* code is 1, 'failed' when a receipt exists with another status code, and
\* 'pending' when no receipt exists yet.
C11_TxStatusDerivation ==
  (op \in RecordOps /\ Settled /\ outcome.st = "ok" /\ outcome.val # <<>>) =>
    outcome.val[1].status =
      (IF receipt = NoReceipt THEN "pending"
       ELSE IF receipt = 1 THEN "success" ELSE "failed")

\* C12: submit, confirm, return.  A state-mutating manager call awaits the
\* confirmation only after its retried submission has resolved, and when it
\* has returned to its caller a submission was made and the receipt of the
\* submitted transaction has been delivered to it.
C12_SubmitConfirmReturn ==
  op \in RetryOps =>
    /\ pc = "wait" => (rstate = "resolved" /\ submissions >= 1)
    /\ (Settled /\ outcome.st = "ok") =>
         (rstate = "resolved" /\ submissions >= 1 /\ receipt # NoReceipt)

\* The license, NFT and DeFi business operations.
BusinessOps ==
  {"getPools", "addLiquidity", "removeLiquidity", "swap", "getQuote",
   "extendLicense", "createLicense", "getLicense", "mint", "getNFT"}

\* C13: unimplemented stubs.  A license, NFT or DeFi operation whose
\* arguments pass validation has always failed by the time it settles, and
\* its failure is a PolygonError with code NOT_IMPLEMENTED.
C13_StubsNotImplemented ==
  (op \in BusinessOps /\ ~ZeroOrEmptyAmount /\ Settled) =>
    /\ outcome.st = "err"
    /\ InstanceOfPolygonError(outcome.err[1])
    /\ outcome.err[1].code = "NOT_IMPLEMENTED"

\* C14: facade disconnect.  When LicenseChainPolygon.disconnect has settled
\* it has invoked disconnect on each of its six managers (so the wallet
\* manager holds no identity any more) and it has completed successfully.
C14_FacadeDisconnect ==
  (op = "disconnect" /\ Settled) =>
    /\ disconnected = {Managers[i] : i \in 1..Len(Managers)}
    /\ wallet = NoWallet
    /\ outcome.st = "ok"

\* C15: reconfiguration is atomic and whole-object.  In every state,
\* whatever updateConfig calls have been made and whether or not a call is
\* in flight, the facade and its license, NFT and DeFi managers hold one and
\* the same configuration, and it is a complete configuration (every field
\* has a value), so no state shows a mix of old and new fields.
C15_AtomicReconfiguration ==
  /\ licenseConfig = config /\ nftConfig = config /\ deFiConfig = config
  /\ config.rpcUrl \in RpcUrls /\ config.networkId \in NetworkIds

C15_Witness ==
  /\ config.rpcUrl # InitialConfig.rpcUrl
  /\ config.networkId = InitialConfig.networkId
  /\ deFiConfig = config
  /\ op = "sendTransaction" /\ pc = "retrying" /\ rstate = "timer"

\* C16: single signing identity slot.  The wallet manager holds no identity
\* or exactly one; every submission of a sendTransaction call is sent with
\* the identity the manager held when the call was invoked, and a signing
\* operation that returned signed with that identity.
C16_SingleIdentitySlot ==
  /\ wallet \in {NoWallet} \cup Keys
  /\ op = "sendTransaction" => signedWith \subseteq {identity}
  /\ (op \in {"signMessage", "signTransaction"} /\ Settled /\ outcome.st = "ok") =>
       outcome.val[1].signedBy = identity

\* C17: retry applies no error inspection.  Whatever the class of the
\* error an invocation failed with, a failure of invocation i below the cap
\* is followed by a timer, and retry rejects only when the number of failed
\* invocations has reached the cap.
C17_NoErrorInspection ==
  (RetryActive /\ maxRetries >= 1) =>
    /\ \A i \in 1..Len(fnLog) :
         (~fnLog[i].ok /\ i < maxRetries) => (Len(delays) >= i /\ delays[i] >= 0)
    /\ rstate = "rejected" => Len(fnLog) = maxRetries

C17_Witness ==
  /\ op = "retry" /\ rstate = "inflight" /\ invocations = 3
  /\ fnLog[1].err[1].code = "INVALID_AMOUNT"
  /\ fnLog[2].err[1].code = "INSUFFICIENT_BALANCE"
  /\ InstanceOfPolygonError(fnLog[2].err[1])

\* C18: a cap of one attempt.  With maxRetries = 1 retry invokes the
\* operation exactly once, schedules no timer, and settles with the result
\* or the error of that one invocation, which a direct caller receives.
C18_SingleAttempt ==
  (RetryActive /\ maxRetries = 1) =>
    /\ invocations = 1
    /\ delays = <<>> /\ timer = -1 /\ fired = 0 /\ rstate # "timer"
    /\ rstate \in {"resolved", "rejected"} => settle = <<fnLog[1]>>
    /\ (op = "retry" /\ pc = "done") =>
         outcome = (IF fnLog[1].ok THEN Returned(fnLog[1].val[1])
                                  ELSE Failed(fnLog[1].err[1]))

C18_Witness ==
  /\ op = "retry" /\ maxRetries = 1 /\ pc = "done"
  /\ invocations = 1 /\ outcome.st = "err" /\ delays = <<>>

RetryPending == rstate \in {"inflight", "timer"}
RetrySettled == rstate \in {"resolved", "rejected"}

\* C19: retry has no timeout.  Retry is settled only when every invocation
\* it made has settled; while an invocation is pending retry is not settled,
\* has no timer and makes no further invocation; and when every invocation
\* settles and every timer fires, a pending retry eventually settles, after
\* at most maxRetries invocations when the cap is at least 1.
C19_NoTimeout ==
  /\ [](RetrySettled => (inFlight = 0 /\ Len(fnLog) = invocations /\ Len(settle) = 1))
  /\ [](rstate = "inflight" => (inFlight = 1 /\ settle = <<>> /\ timer = -1))
  /\ [][inFlight > 0 => invocations' <= invocations]_vars
  /\ []((RetrySettled /\ maxRetries >= 1) => invocations <= maxRetries)
  /\ (RetryPending ~> RetrySettled)

C19_Witness ==
  /\ op = "retry" /\ rstate = "rejected" /\ maxRetries = 2
  /\ invocations = 2 /\ fired = 1 /\ inFlight = 0

QueryFailed == \E q \in Queries : queries[q] = "failed"

\* C20: getAccount joins three concurrent queries.  For a well-formed
\* address the three queries are all issued before any is answered; when
\* getAccount has returned, all three have been answered and the account
\* combines their answers for the address asked (isContract exactly when the
\* code is not '0x'); when a query has failed, the error that query threw
\* is a PolygonError and getAccount fails with that same error.
C20_GetAccountJoin ==
  (op = "getAccount" /\ validateAddress(args.addr)) =>
    /\ netCalls = 3 /\ \A q \in Queries : queries[q] # "none"
    /\ (Settled /\ outcome.st = "ok") =>
         /\ \A q \in Queries : queries[q] \in Answers(q)
         /\ outcome.val[1].address = args.addr
         /\ outcome.val[1].balance = queries.balance
         /\ outcome.val[1].transactionCount = queries.transactionCount
         /\ outcome.val[1].isContract = (queries.code # "0x")
    /\ (Settled /\ outcome.st = "err") =>
         /\ QueryFailed
         /\ InstanceOfPolygonError(caught[1])
         /\ outcome = Failed(caught[1])


\* C21: for every non-negative integer x and every number of decimals d of
\* the range, parsing with d decimals the text formatUnits(x, d) gives back
\* x as a decimal string.
C21_FormatParseRoundTrip ==
  (op = "parseUnits" /\ pc = "done") =>
    /\ outcome.st = "ok"
    /\ outcome.val[1] = args.amt2

\* 50 with 3 decimals: "0.05", a fraction with a leading zero and a
\* dropped trailing zero, is parsed back to "50".
C21_Witness ==
  /\ op = "parseUnits" /\ pc = "done"
  /\ args.amt2 = <<"5", "0">> /\ args.num = 3
  /\ args.amt = <<"0", ".", "0", "5">>
  /\ outcome = Returned(<<"5", "0">>)

\* The property names of an error's data object.
DataKeys(d) == IF "key2" \in DOMAIN d THEN {d.key, d.key2} ELSE {d.key}

\* C22: each specialised error kind carries the code and the data payload
\* of the taxonomy: INSUFFICIENT_BALANCE {required, available},
\* TRANSACTION_FAILED {hash, reason}, NOT_FOUND {id} for the license and
\* the NFT kinds, INVALID_AMOUNT {amount}, NETWORK_ERROR {originalError},
\* CONTRACT_ERROR {method, reason}.
C22_ErrorPayloads ==
  (op \in ErrorKinds /\ pc = "done") =>
    LET e == outcome.val[1] IN
    CASE op = "InsufficientBalanceError" ->
           e.code = "INSUFFICIENT_BALANCE" /\ DataKeys(e.data) = {"required", "available"}
      [] op = "TransactionFailedError" ->
           e.code = "TRANSACTION_FAILED" /\ DataKeys(e.data) = {"hash", "reason"}
      [] op \in {"LicenseNotFoundError", "NFTNotFoundError"} ->
           e.code = "NOT_FOUND" /\ DataKeys(e.data) = {"id"}
      [] op = "InvalidAmountError" ->
           e.code = "INVALID_AMOUNT" /\ DataKeys(e.data) = {"amount"}
      [] op = "NetworkError" ->
           e.code = "NETWORK_ERROR" /\ DataKeys(e.data) = {"originalError"}
      [] OTHER ->
           e.code = "CONTRACT_ERROR" /\ DataKeys(e.data) = {"method", "reason"}

\* C23: validateTxHash(s) is true exactly when s is the two characters "0x"
\* followed by exactly 64 hexadecimal digits of either case and nothing
\* else: true for "0x" and 64 times "a", false for "0xabc" and for every
\* shorter, longer or non-hexadecimal string.
C23_TxHashPattern ==
  (op = "validateTxHash" /\ pc = "done") =>
    LET s == args.amt IN
    outcome.val[1] =
      (/\ Len(s) = 66
       /\ SubSeq(s, 1, 2) = <<"0", "x">>
       /\ \A i \in 3..Len(s) :
            s[i] \in {"0", "1", "2", "3", "4", "5", "6", "7", "8", "9",
                      "a", "b", "c", "d", "e", "f", "A", "B", "C", "D", "E", "F"})

\* "0x" + "a".repeat(64) has been accepted.
C23_Witness ==
  /\ op = "validateTxHash" /\ pc = "done"
  /\ args.amt = <<"0", "x">> \o [i \in 1..64 |-> "a"]
  /\ outcome = Returned(TRUE)

\* C24: the promise retry returns is settled exactly once.  resolve and
\* reject are called at most once between them, the promise is resolved
\* only by a call of resolve and rejected only by a call of reject, once it
\* is settled no timer is pending and no invocation is in flight, and the
\* settlement does not change until the call returns.
C24_SettledOnce ==
  /\ [](/\ Len(settle) <= 1
        /\ RetrySettled <=> Len(settle) = 1
        /\ rstate = "resolved" => settle[1].ok
        /\ rstate = "rejected" => ~settle[1].ok
        /\ RetrySettled => timer = -1 /\ inFlight = 0 /\ fnPhase = "none")
  /\ [][Len(settle) = 1 => settle' \in {settle, <<>>}]_vars

\* A direct call settled by its third invocation, after two timers.
C24_Witness ==
  /\ op = "retry" /\ RetrySettled /\ fired = 2 /\ Len(settle) = 1

\* C25: retry always invokes the operation at least once.  With a cap of
\* zero or less it invokes it exactly once, and when that invocation fails
\* it rejects with its error and schedules no timer.
C25_AtLeastOnce ==
  RetryActive =>
    /\ invocations >= 1
    /\ maxRetries <= 0 =>
         /\ invocations = 1 /\ delays = <<>> /\ timer = -1 /\ fired = 0
         /\ (Len(fnLog) = 1 /\ ~fnLog[1].ok) =>
              /\ rstate = "rejected"
              /\ settle = <<Err(fnLog[1].err[1])>>
              /\ pc = "done" => outcome = Failed(fnLog[1].err[1])

C25_Witness ==
  /\ op = "retry" /\ pc = "done" /\ maxRetries = -1
  /\ invocations = 1 /\ outcome = Failed(TransportError(1)) /\ delays = <<>>

SendOps == {"sendTransaction", "sendContractTransaction"}
Submitted == \E i \in 1..Len(fnLog) : fnLog[i].ok

\* C26: in sendTransaction and sendContractTransaction the wait for the
\* confirmation lies outside the retry loop.  A call makes at most 3
\* submission attempts, at most one of which succeeds, and that one is the
\* last; the confirmation is awaited only after retry has resolved; once a
\* submission has succeeded the call makes no further attempt, also when
\* waiting for the confirmation fails, which the call reports as a failure.
C26_ConfirmOutsideRetry ==
  /\ [](op \in SendOps =>
          /\ invocations <= DefaultMaxRetries /\ submissions <= invocations
          /\ Cardinality({i \in 1..Len(fnLog) : fnLog[i].ok}) <= 1
          /\ Submitted => fnLog[Len(fnLog)].ok /\ Len(fnLog) = invocations
          /\ pc = "wait" => Submitted /\ rstate = "resolved" /\ timer = -1
          /\ (pc = "done" /\ Submitted /\ receipt = NoReceipt) => outcome.st = "err")
  /\ [][(op \in SendOps /\ Submitted /\ op' = op) =>
          /\ submissions' = submissions /\ invocations' = invocations
          /\ fnLog' = fnLog /\ timer' = -1]_vars

\* Two submissions failed, the third succeeded, and waiting for its
\* confirmation failed: the call has ended with three submissions.
C26_Witness ==
  /\ op = "sendContractTransaction" /\ pc = "done" /\ Submitted
  /\ receipt = NoReceipt /\ outcome.st = "err"
  /\ invocations = 3 /\ submissions = 3

\* Sum of the values of the transfers of ts that address a received / sent.
RECURSIVE Received(_, _)
Received(ts, a) ==
  IF ts = <<>> THEN 0
  ELSE Received(Tail(ts), a) + (IF Head(ts)[2] = a THEN StrNat(Head(ts)[3]) ELSE 0)
RECURSIVE Sent(_, _)
Sent(ts, a) ==
  IF ts = <<>> THEN 0
  ELSE Sent(Tail(ts), a) + (IF Head(ts)[1] = a THEN StrNat(Head(ts)[3]) ELSE 0)

\* C27: for any sequence of Transfer events getTokenHolders returns exactly
\* the addresses, other than the zero address, whose net balance (values
\* received minus values sent) is strictly positive, each mapped to that
\* balance; the zero address and the addresses of zero or negative net
\* balance are not in the result.
C27_TokenHolders ==
  (op = "getTokenHolders" /\ pc = "done" /\ netCalls = 0) =>
    LET ts == args.amt
        result == outcome.val[1]
        parties == {ts[i][1] : i \in 1..Len(ts)} \cup {ts[i][2] : i \in 1..Len(ts)}
    IN /\ DOMAIN result =
            {a \in parties \ {ZeroAddress} : Received(ts, a) - Sent(ts, a) > 0}
       /\ \A a \in DOMAIN result : result[a] = NumStr(Received(ts, a) - Sent(ts, a))
       /\ ZeroAddress \notin DOMAIN result

\* 2 minted to A, A sends 2 to B, A sends 2 more: B holds 4, A, 2 in debt,
\* is not a holder, and neither is the zero address.
C27_Witness ==
  /\ op = "getTokenHolders" /\ pc = "done" /\ netCalls = 0
  /\ args.amt = << <<ZeroAddress, "0xA11ce", <<"2">> >>,
                   <<"0xA11ce", "0xB0b", <<"2">> >>,
                   <<"0xA11ce", "0xB0b", <<"2">> >> >>
  /\ DOMAIN outcome.val[1] = {"0xB0b"}
  /\ outcome.val[1]["0xB0b"] = <<"4">>

\* C28: setWallet with an invalid private key fails with the code
\* INVALID_PRIVATE_KEY and leaves the signing identity of the manager, or
\* its absence, as it was: the operation invoked next uses that identity.
C28_SetWalletFrame ==
  /\ [][(Idle /\ op' = "setWallet" /\ args'.addr \notin Keys) =>
          /\ wallet' = wallet
          /\ outcome'.st = "err" /\ outcome'.err[1].code = "INVALID_PRIVATE_KEY"]_vars
  /\ [][(op = "setWallet" /\ outcome.st = "err" /\ pc' = "idle") =>
          wallet' = wallet]_vars
  /\ [][(Idle /\ op' \in WalletOps) => identity' = wallet]_vars

\* A manager holding key1 has rejected the key "bad-key" and still holds key1.
C28_Witness ==
  /\ op = "setWallet" /\ pc = "done" /\ args.addr = "bad-key"
  /\ outcome = Failed(InvalidPrivateKey) /\ wallet = "key1"

\* C29: wallet lifecycle.  While the manager holds no identity (after
\* disconnect, until a setWallet with a valid key), getCurrentWallet returns
\* null and no step of a sendTransaction, signMessage or signTransaction
\* call makes a network call or completes the call successfully, whatever
\* was in progress when the identity was dropped; a call invoked once
\* setWallet has succeeded uses the new identity.
C29_WalletLifecycle ==
  /\ [][(Idle /\ op' = "getCurrentWallet" /\ wallet = NoWallet) =>
          outcome' = ReturnedNull]_vars
  /\ [][(wallet = NoWallet /\ wallet' = NoWallet /\ op' \in WalletOps) =>
          /\ netCalls' <= netCalls /\ submissions' <= submissions
          /\ (pc # "done" /\ pc' = "done") => outcome'.st = "err"]_vars
  /\ [][(Idle /\ op' \in WalletOps /\ wallet # NoWallet) => identity' = wallet]_vars

DeFiAmountOps == {"addLiquidity", "removeLiquidity", "swap", "getQuote"}

WrapperCode(o) ==
  CASE o = "addLiquidity" -> "ADD_LIQUIDITY_ERROR"
    [] o = "removeLiquidity" -> "REMOVE_LIQUIDITY_ERROR"
    [] o = "swap" -> "SWAP_ERROR"
    [] OTHER -> "QUOTE_ERROR"

\* C30: DeFi validation errors are not reclassified.  When an amount of
\* addLiquidity, removeLiquidity, swap or getQuote is empty or "0", the
\* caller receives the very InvalidAmountError the amount check threw, with
\* code INVALID_AMOUNT; otherwise the caller receives the wrapper error of
\* the operation; and swap reports amountIn when amountIn is invalid,
\* whatever amountOutMin is.
C30_ValidationNotReclassified ==
  (op \in DeFiAmountOps /\ pc = "done") =>
    LET invalid(s) == s = <<>> \/ s = <<"0">>
        e == outcome.err[1]
    IN /\ outcome.st = "err"
       /\ IF invalid(args.amt) \/ (op \in {"addLiquidity", "swap"} /\ invalid(args.amt2))
            THEN /\ outcome.err = caught
                 /\ e.cls = "InvalidAmountError" /\ e.code = "INVALID_AMOUNT"
                 /\ e.data.key = "amount"
                 /\ op = "swap" =>
                      e.data.str = IF invalid(args.amt) THEN args.amt ELSE args.amt2
                 /\ op \in {"removeLiquidity", "getQuote"} => e.data.str = args.amt
            ELSE /\ e.cls = "PolygonError" /\ e.code = WrapperCode(op)
                 /\ caught = <<NotImplementedError>>

\* swap('', '0'): both amounts are invalid, the error carries amountIn.
C30_Witness ==
  /\ op = "swap" /\ pc = "done" /\ args.amt = <<>> /\ args.amt2 = <<"0">>
  /\ outcome = Failed(InvalidAmountError(<<>>))

====
